---- MODULE Spec2Model ----
(***************************************************************************)
(* Workflow validation and execution engine of backend/workflow_service.py *)
(* (class WorkflowService), modelled as a state machine.                   *)
(*                                                                         *)
(* Two specifications:                                                     *)
(*   Spec         - the service: the two JSON stores, the API operations   *)
(*                  and the background execution tasks.                    *)
(*   SpecValidate - validate_workflow as a pure function, applied to       *)
(*                  every workflow graph of a bounded family.              *)
(***************************************************************************)
EXTENDS Integers, Sequences, FiniteSets, TLC

(***************************************************************************)
(* Bounds                                                                  *)
(***************************************************************************)
\* number of distinct node ids of a generated workflow graph
MaxNodes == 3
\* number of edges of a generated workflow graph
MaxEdges == 3
\* number of workflow ids the store can hand out
MaxWorkflows == 2
\* number of execution ids the store can hand out
MaxExecutions == 2
\* number of API requests served in one behaviour
MaxCalls == 3

(***************************************************************************)
(* Values                                                                  *)
(***************************************************************************)
\* Optional[X]: None is the empty sequence, a value x is <<x>>
None == <<>>
Some(x) == <<x>>

\* a JSON string value
Str(s) == [kind |-> "str", s |-> s]
\* a JSON object value, abstracted to its set of keys
Dict(ks) == [kind |-> "dict", keys |-> ks]
EmptyDict == Dict({})

Range(f) == {f[x] : x \in DOMAIN f}

\* f with key k bound to v (dict item assignment / {**d, k: v})
Put(f, k, v) == [x \in (DOMAIN f) \cup {k} |-> IF x = k THEN v ELSE f[x]]
\* faulty variant: the key stays in the mapping
Del_Kept(f, k) == f
\* f without key k (del d[k])
Del(f, k) == [x \in (DOMAIN f) \ {k} |-> f[x]]

(***************************************************************************)
(* Graph model: WorkflowNode, WorkflowEdge                                 *)
(***************************************************************************)
\* node.data: the keys the service reads (label, agent_id, agent_config)
NodeData(label, cfg) == [label |-> label, agent_id |-> None, agent_config |-> cfg]
\* agent_config absent from data, a mapping, or JSON null
CfgAbsent == [kind |-> "absent", model |-> None]
CfgMap(m) == [kind |-> "map", model |-> m]
CfgNull == [kind |-> "null", model |-> None]

WorkflowNode(id, type, data) == [id |-> id, type |-> type, data |-> data]
WorkflowEdge(source, target, handle) ==
    [source |-> source, target |-> target, source_handle |-> handle]

NodeIdsOf(nodes) == {nodes[i].id : i \in DOMAIN nodes}

(***************************************************************************)
(* validate_workflow and _check_for_cycles                                 *)
(***************************************************************************)
OrphanWarning(id) ==
    [type |-> "node", node_id |-> id,
     message |-> "Node is not connected to any other nodes"]
NoInputError ==
    [type |-> "flow", node_id |-> "",
     message |-> "Workflow must have at least one input node"]
NoOutputWarning ==
    [type |-> "flow", node_id |-> "",
     message |-> "Workflow has no output nodes"]
CycleError ==
    [type |-> "flow", node_id |-> "",
     message |-> "Workflow contains cycles which may cause infinite loops"]

\* adjacency[edge.source].append(edge.target) raises KeyError when the
\* source is not the id of a node
CyclesRaises(nodes, edges) ==
    \E i \in DOMAIN edges : edges[i].source \notin NodeIdsOf(nodes)

\* adjacency.get(node_id, []): the targets of the edges leaving node_id, in
\* edge order; empty for an id that is not a node
RECURSIVE Neighbors(_, _, _)
Neighbors(edges, i, node_id) ==
    IF i > Len(edges) THEN <<>>
    ELSE (IF edges[i].source = node_id THEN <<edges[i].target>> ELSE <<>>)
         \o Neighbors(edges, i + 1, node_id)

\* faulty variant: a node is never taken off the recursion stack
LeaveStack_Kept(st, node_id) == st
\* recursion_stack.remove(node_id)
LeaveStack(st, node_id) == [st EXCEPT !.stack = @ \ {node_id}]

\* has_cycle_dfs; st = [found, visited, stack] is the closure state
RECURSIVE has_cycle_dfs(_, _, _)
RECURSIVE VisitNeighbors(_, _, _, _)
has_cycle_dfs(edges, node_id, st) ==
    IF node_id \in st.stack THEN [st EXCEPT !.found = TRUE]
    ELSE IF node_id \in st.visited THEN st
    ELSE LET entered == [found |-> FALSE,
                         visited |-> st.visited \cup {node_id},
                         stack |-> st.stack \cup {node_id}]
             r == VisitNeighbors(edges, Neighbors(edges, 1, node_id), 1, entered)
         IN  IF r.found THEN r ELSE LeaveStack(r, node_id)
VisitNeighbors(edges, nbrs, i, st) ==
    IF i > Len(nbrs) THEN st
    ELSE LET r == has_cycle_dfs(edges, nbrs[i], st)
         IN  IF r.found THEN r ELSE VisitNeighbors(edges, nbrs, i + 1, r)

\* the loop over all nodes that starts a traversal at every unvisited node
RECURSIVE CycleScan(_, _, _, _)
CycleScan(nodes, edges, i, st) ==
    IF i > Len(nodes) THEN st
    ELSE IF nodes[i].id \in st.visited THEN CycleScan(nodes, edges, i + 1, st)
    ELSE LET r == has_cycle_dfs(edges, nodes[i].id, st)
         IN  IF r.found THEN r ELSE CycleScan(nodes, edges, i + 1, r)

\* _check_for_cycles, when building the adjacency list does not raise
_check_for_cycles(nodes, edges) ==
    CycleScan(nodes, edges, 1,
              [found |-> FALSE, visited |-> {}, stack |-> {}]).found

\* faulty variant: a workflow without output nodes draws no warning
MissingOutputWarnings_Silent(output_nodes) == <<>>
\* if not output_nodes: warnings.append(...)
MissingOutputWarnings(output_nodes) ==
    IF output_nodes = <<>> THEN <<NoOutputWarning>> ELSE <<>>

\* faulty variant: every workflow is answered as valid
IsValid_Always(errors) == TRUE
\* "is_valid": len(errors) == 0
IsValid(errors) == Len(errors) = 0

\* validate_workflow: either raises KeyError out of _check_for_cycles or
\* returns {is_valid, errors, warnings}
validate_workflow(wf) ==
    LET connected_node_ids ==
            {wf.edges[i].source : i \in DOMAIN wf.edges}
            \cup {wf.edges[i].target : i \in DOMAIN wf.edges}
        IsOrphan(n) == n.id \notin connected_node_ids /\ n.type # "input"
        orphans == SelectSeq(wf.nodes, IsOrphan)
        orphan_warnings == [i \in DOMAIN orphans |-> OrphanWarning(orphans[i].id)]
        IsInput(n) == n.type = "input"
        IsOutput(n) == n.type = "output"
        input_nodes == SelectSeq(wf.nodes, IsInput)
        output_nodes == SelectSeq(wf.nodes, IsOutput)
        errors1 == IF input_nodes = <<>> THEN <<NoInputError>> ELSE <<>>
        warnings == orphan_warnings \o MissingOutputWarnings(output_nodes)
    IN  IF CyclesRaises(wf.nodes, wf.edges)
        THEN [kind |-> "raised", exc |-> "KeyError"]
        ELSE LET errors == errors1
                           \o (IF _check_for_cycles(wf.nodes, wf.edges)
                               THEN <<CycleError>> ELSE <<>>)
             IN  [kind |-> "returned",
                  is_valid |-> IsValid(errors),
                  errors |-> errors, warnings |-> warnings]

(***************************************************************************)
(* Inputs of the service model                                             *)
(***************************************************************************)
Users == {"alice", "bob"}
WorkflowIds == 1..MaxWorkflows
ExecutionIds == 1..MaxExecutions

InputNode(id) == WorkflowNode(id, "input", NodeData(Some("Input"), CfgAbsent))
OutputNode(id) == WorkflowNode(id, "output", NodeData(Some("Output"), CfgAbsent))
AgentNode(id, cfg) == WorkflowNode(id, "agent", NodeData(None, cfg))
ConditionNode(id) == WorkflowNode(id, "condition", NodeData(None, CfgAbsent))

\* input-1 -> agent-1 -> output-1
LinearNodes == <<InputNode("input-1"), AgentNode("agent-1", CfgMap(Some("llama2"))),
                 OutputNode("output-1")>>
LinearEdges == <<WorkflowEdge("input-1", "agent-1", None),
                 WorkflowEdge("agent-1", "output-1", None)>>
\* the same graph with an agent node whose agent_config is null
FailingNodes == <<InputNode("input-1"), AgentNode("agent-1", CfgNull),
                  OutputNode("output-1")>>
\* input-1 -> cond-1 -true-> agent-t -> output-1, cond-1 -false-> agent-f -> output-1
ConditionNodes == <<InputNode("input-1"), ConditionNode("cond-1"),
                    AgentNode("agent-t", CfgAbsent), AgentNode("agent-f", CfgAbsent),
                    OutputNode("output-1")>>
ConditionEdges == <<WorkflowEdge("input-1", "cond-1", None),
                    WorkflowEdge("cond-1", "agent-t", Some("true")),
                    WorkflowEdge("cond-1", "agent-f", Some("false")),
                    WorkflowEdge("agent-t", "output-1", None),
                    WorkflowEdge("agent-f", "output-1", None)>>
\* input-1 -> agent-1 -> agent-1
CyclicEdges == <<WorkflowEdge("input-1", "agent-1", None),
                 WorkflowEdge("agent-1", "agent-1", None)>>
\* an edge whose target is no node
GhostTargetEdges == <<WorkflowEdge("input-1", "ghost", None)>>

Graph(nodes, edges) == [nodes |-> nodes, edges |-> edges]
\* the graphs a create request carries
CreateGraphs ==
    {Graph(LinearNodes, LinearEdges), Graph(FailingNodes, LinearEdges),
     Graph(ConditionNodes, ConditionEdges), Graph(LinearNodes, CyclicEdges),
     Graph(LinearNodes, GhostTargetEdges)}
\* the bodies an update request carries: a mapping from a subset of the keys
\* name, description, nodes, edges to the new values
UpdateBodies == {[name |-> "renamed"], [edges |-> CyclicEdges]}
\* JSON null where the model declares a str field
JsonNull == "<null>"
\* further request bodies: an update that sets name to null, which
\* UpdateWorkflowRequest accepts (Optional[str]) and exclude_unset keeps, and
\* a workflow created without nodes and edges
NullBodies == {[name |-> JsonNull]}
EmptyGraph == [nodes |-> <<>>, edges |-> <<>>]
\* the input_data an execute request carries
InputPayloads == {None, Some(Dict({"test"}))}

(***************************************************************************)
(* State                                                                   *)
(***************************************************************************)
VARIABLES
    workflows,        \* data/workflows.json: workflow id -> Workflow
    usedWorkflowIds,  \* the workflow ids uuid4 has handed out
    executions,       \* data/workflow_executions.json: execution id -> WorkflowExecution
    usedExecutionIds, \* the execution ids uuid4 has handed out
    tasks,            \* execution id -> the background task of _execute_workflow_async
    calls,            \* the number of API requests served so far
    lastCall,         \* the latest API request and what its caller got back
    vwf,              \* SpecValidate: the workflow handed to validate_workflow
    vres,             \* SpecValidate: what validate_workflow answered
    users,            \* data/users.json: the registered users
    tokens,           \* the emails an access token was issued for
    authReply,        \* the latest auth request and its response
    agents,           \* data/agents.json as AgentDataService keeps it
    svcAgents,        \* AgentService.agents
    createdBy,        \* history: agent id -> the user whose request created it
    usedAgentIds,     \* the agent ids uuid4 has handed out
    agentReply,       \* the latest agent request and its response
    online_models,    \* models.json: online_models
    model_status,     \* models.json: model_status
    clock,            \* int(datetime.now().timestamp()): the clock second
    modelReply        \* the latest model request and what it returned

authVars == <<users, tokens, authReply>>
agentVars == <<agents, svcAgents, createdBy, usedAgentIds, agentReply>>
modelVars == <<online_models, model_status, clock, modelReply>>
\* the stores of the other services, which no workflow request touches
sideVars == <<authVars, agentVars, modelVars>>
workflowVars == <<workflows, usedWorkflowIds, executions, usedExecutionIds, tasks,
                  calls, lastCall, vwf, vres>>

vars == <<workflows, usedWorkflowIds, executions, usedExecutionIds, tasks, calls,
          lastCall, vwf, vres, users, tokens, authReply, agents, svcAgents,
          createdBy, usedAgentIds, agentReply, online_models, model_status, clock,
          modelReply>>

\* no request was served yet
NoReply == [op |-> "none"]
AuthInit == users = <<>> /\ tokens = {} /\ authReply = NoReply
AgentInit ==
    /\ agents = <<>>
    /\ svcAgents = <<>>
    /\ createdBy = <<>>
    /\ usedAgentIds = {}
    /\ agentReply = NoReply
\* ensure_data_file: {"local_models": {}, "online_models": {}, "model_status": {}}
ModelInit ==
    /\ online_models = <<>>
    /\ model_status = <<>>
    /\ clock = 0
    /\ modelReply = NoReply

\* a request: the operation, the requesting user, the workflow id, dry_run,
\* the outcome (a return value or the error raised) and, for an execution
\* that was returned, its id and status
NoCall == [op |-> "none", user_id |-> "", id |-> 0, dry_run |-> FALSE,
           outcome |-> "", execution_id |-> 0, status |-> ""]
Call(op, user_id, id, outcome) ==
    [op |-> op, user_id |-> user_id, id |-> id, dry_run |-> FALSE,
     outcome |-> outcome, execution_id |-> 0, status |-> ""]
ExecuteCall(user_id, id, dry_run, outcome, execution_id, status) ==
    [op |-> "execute_workflow", user_id |-> user_id, id |-> id, dry_run |-> dry_run,
     outcome |-> outcome, execution_id |-> execution_id, status |-> status]

Init ==
    /\ workflows = <<>>
    /\ usedWorkflowIds = {}
    /\ executions = <<>>
    /\ usedExecutionIds = {}
    /\ tasks = <<>>
    /\ calls = 0
    /\ lastCall = NoCall
    /\ vwf = Graph(<<>>, <<>>)
    /\ vres = [kind |-> "none"]
    /\ AuthInit /\ AgentInit /\ ModelInit

\* datetime.now().isoformat(): one reading of the clock
now == "2024-01-01T00:00:00"

\* one more API request is served
Served == calls < MaxCalls /\ calls' = calls + 1

\* faulty variant: an id is handed out whether or not it is in use
NewId_Reused(all, used) == CHOOSE id \in all : \A other \in all : id <= other
\* str(uuid.uuid4()): an id that was never handed out
NewId(all, used) == CHOOSE id \in all \ used : \A other \in all \ used : id <= other

(***************************************************************************)
(* Workflow CRUD                                                           *)
(***************************************************************************)
\* Workflow(**v): name and description are declared str, so a stored null
\* fails the validation of the model
WorkflowParses(v) == v.name # JsonNull /\ v.description # JsonNull
\* load_workflows: the mapping read from the file, and the empty mapping
\* when the file cannot be turned into Workflow objects (except Exception:
\* return {})
load_workflows ==
    IF \A k \in DOMAIN workflows : WorkflowParses(workflows[k])
    THEN workflows
    ELSE <<>>
\* load_workflow_executions: the mapping read from the file
load_workflow_executions == executions

create_workflow(graph, user_id) ==
    /\ usedWorkflowIds # WorkflowIds
    /\ LET workflow_id == NewId(WorkflowIds, usedWorkflowIds)
           workflow == [id |-> workflow_id, name |-> "created",
                        description |-> "", nodes |-> graph.nodes,
                        edges |-> graph.edges, user_id |-> user_id,
                        created_at |-> now, updated_at |-> now,
                        is_template |-> FALSE, template_category |-> None]
       IN  /\ workflows' = Put(load_workflows, workflow_id, workflow)
           /\ usedWorkflowIds' = usedWorkflowIds \cup {workflow_id}
           /\ lastCall' = Call("create_workflow", user_id, workflow_id, "ok")
    /\ Served
    /\ UNCHANGED <<executions, usedExecutionIds, tasks, vwf, vres, sideVars>>

\* faulty variant: the owner of the workflow is not compared with the caller
get_workflow_AnyUser(workflow_id, user_id) ==
    IF workflow_id \in DOMAIN load_workflows
    THEN Some(load_workflows[workflow_id])
    ELSE None
\* get_workflow as a function of the store: the workflow, or None
get_workflow(workflow_id, user_id) ==
    IF workflow_id \in DOMAIN load_workflows
       /\ load_workflows[workflow_id].user_id = user_id
    THEN Some(load_workflows[workflow_id])
    ELSE None

\* dict.values(): the values of f in insertion order; ids are handed out in
\* increasing order and never reused, so insertion order is key order
RECURSIVE Values(_, _)
Values(f, keys) ==
    IF keys = {} THEN <<>>
    ELSE LET k == CHOOSE x \in keys : \A y \in keys : x <= y
         IN  <<f[k]>> \o Values(f, keys \ {k})

\* get_user_workflows as a function of the store
get_user_workflows(user_id) ==
    LET OfUser(w) == w.user_id = user_id
    IN  SelectSeq(Values(load_workflows, DOMAIN load_workflows), OfUser)

\* the in-place field replacement of update_workflow
UpdatedWorkflow(workflow, workflow_data) ==
    [workflow EXCEPT
        !.name = IF "name" \in DOMAIN workflow_data THEN workflow_data.name ELSE @,
        !.description = IF "description" \in DOMAIN workflow_data
                        THEN workflow_data.description ELSE @,
        !.nodes = IF "nodes" \in DOMAIN workflow_data THEN workflow_data.nodes ELSE @,
        !.edges = IF "edges" \in DOMAIN workflow_data THEN workflow_data.edges ELSE @,
        !.updated_at = now]

update_workflow(workflow_id, workflow_data, user_id) ==
    /\ IF workflow_id \notin DOMAIN load_workflows
          \/ load_workflows[workflow_id].user_id # user_id
       THEN /\ lastCall' = Call("update_workflow", user_id, workflow_id, "None")
            /\ UNCHANGED workflows
       ELSE LET workflow == UpdatedWorkflow(load_workflows[workflow_id], workflow_data)
            IN  /\ workflows' = Put(load_workflows, workflow_id, workflow)
                /\ lastCall' = Call("update_workflow", user_id, workflow_id, "ok")
    /\ Served
    /\ UNCHANGED <<usedWorkflowIds, executions, usedExecutionIds, tasks, vwf, vres,
                   sideVars>>

\* faulty variant: the executions of the deleted workflow are removed with it
delete_workflow_Cascade(workflow_id, user_id) ==
    /\ IF workflow_id \notin DOMAIN load_workflows
          \/ load_workflows[workflow_id].user_id # user_id
       THEN /\ lastCall' = Call("delete_workflow", user_id, workflow_id, "False")
            /\ UNCHANGED <<workflows, executions>>
       ELSE /\ workflows' = Del(load_workflows, workflow_id)
            /\ executions' = [e \in {x \in DOMAIN executions :
                                        executions[x].workflow_id # workflow_id}
                                 |-> executions[e]]
            /\ lastCall' = Call("delete_workflow", user_id, workflow_id, "True")
    /\ Served
    /\ UNCHANGED <<usedWorkflowIds, usedExecutionIds, tasks, vwf, vres, sideVars>>
\* delete_workflow: the record is removed from the workflow file only
delete_workflow(workflow_id, user_id) ==
    /\ IF workflow_id \notin DOMAIN load_workflows
          \/ load_workflows[workflow_id].user_id # user_id
       THEN /\ lastCall' = Call("delete_workflow", user_id, workflow_id, "False")
            /\ UNCHANGED workflows
       ELSE /\ workflows' = Del(load_workflows, workflow_id)
            /\ lastCall' = Call("delete_workflow", user_id, workflow_id, "True")
    /\ Served
    /\ UNCHANGED <<usedWorkflowIds, executions, usedExecutionIds, tasks, vwf, vres,
                   sideVars>>


(***************************************************************************)
(* execute_workflow                                                        *)
(***************************************************************************)
\* faulty variant: an invalid workflow is let through
ValidationFailed_Ignored(validation_result) == FALSE
\* not validation_result["is_valid"]
ValidationFailed(validation_result) == ~validation_result.is_valid

\* faulty variant: the record keeps the default status of WorkflowExecution
NewExecution_Pending(execution_id, workflow_id, user_id, input_data) ==
    [id |-> execution_id, workflow_id |-> workflow_id, user_id |-> user_id,
     status |-> "pending",
     input_data |-> IF input_data = None THEN EmptyDict ELSE input_data[1],
     output_data |-> None, node_executions |-> <<>>,
     start_time |-> now, end_time |-> None, error |-> None]
\* WorkflowExecution(id=..., status="running", input_data=input_data or {}, ...)
NewExecution(execution_id, workflow_id, user_id, input_data) ==
    [id |-> execution_id, workflow_id |-> workflow_id, user_id |-> user_id,
     status |-> "running",
     input_data |-> IF input_data = None THEN EmptyDict ELSE input_data[1],
     output_data |-> None, node_executions |-> <<>>,
     start_time |-> now, end_time |-> None, error |-> None]

\* the dry-run branch: status and end_time are set, nothing else
DryRunExecution(execution) ==
    [execution EXCEPT !.status = "completed", !.end_time = Some(now)]

\* faulty variant: the dry-run branch is never taken
IsDryRun_Ignored(dry_run) == FALSE
\* if dry_run:
IsDryRun(dry_run) == dry_run

\* the background task as asyncio.create_task leaves it: scheduled, not started
NewTask(workflow, execution) ==
    [workflow |-> Graph(workflow.nodes, workflow.edges),
     execution |-> execution,
     pc |-> "scheduled",
     frontier |-> <<>>,
     state |-> [input |-> execution.input_data, output |-> <<>>,
                node_results |-> <<>>],
     invoked |-> <<>>]

\* what execute_workflow does to the caller: the error it raises, or "ok"
ExecuteOutcome(workflow_id, user_id) ==
    IF get_workflow(workflow_id, user_id) = None
    THEN "ValueError: Workflow not found or access denied"
    ELSE LET validation_result == validate_workflow(get_workflow(workflow_id, user_id)[1])
         IN  IF validation_result.kind = "raised" THEN "KeyError"
             ELSE IF ValidationFailed(validation_result)
                  THEN "ValueError: Workflow validation failed"
                  ELSE "ok"

execute_workflow(workflow_id, user_id, input_data, dry_run) ==
    /\ IF ExecuteOutcome(workflow_id, user_id) # "ok"
       THEN /\ lastCall' = ExecuteCall(user_id, workflow_id, dry_run,
                                       ExecuteOutcome(workflow_id, user_id), 0, "")
            /\ UNCHANGED <<executions, usedExecutionIds, tasks>>
       ELSE /\ usedExecutionIds # ExecutionIds
            /\ LET workflow == get_workflow(workflow_id, user_id)[1]
                   execution_id == NewId(ExecutionIds, usedExecutionIds)
                   execution == NewExecution(execution_id, workflow_id, user_id,
                                             input_data)
                   saved == Put(load_workflow_executions, execution_id, execution)
               IN  /\ usedExecutionIds' = usedExecutionIds \cup {execution_id}
                   /\ IF IsDryRun(dry_run)
                      THEN /\ executions' = Put(saved, execution_id,
                                                DryRunExecution(execution))
                           /\ UNCHANGED tasks
                           /\ lastCall' = ExecuteCall(user_id, workflow_id, dry_run,
                                   "ok", execution_id,
                                   DryRunExecution(execution).status)
                      ELSE /\ executions' = saved
                           /\ tasks' = Put(tasks, execution_id,
                                           NewTask(workflow, execution))
                           /\ lastCall' = ExecuteCall(user_id, workflow_id, dry_run,
                                   "ok", execution_id, execution.status)
    /\ Served
    /\ UNCHANGED <<workflows, usedWorkflowIds, vwf, vres, sideVars>>

(***************************************************************************)
(* _execute_workflow_async: the compiled graph and the node functions      *)
(***************************************************************************)
NodeById(graph, node_id) ==
    graph.nodes[CHOOSE i \in DOMAIN graph.nodes : graph.nodes[i].id = node_id]

\* _build_execution_graph: compile() rejects an edge that names no added node
BuildRaises(graph) ==
    \E i \in DOMAIN graph.edges :
        \/ graph.edges[i].source \notin NodeIdsOf(graph.nodes)
        \/ graph.edges[i].target \notin NodeIdsOf(graph.nodes)

\* set_entry_point(input_nodes[0].id)
IsInputNode(n) == n.type = "input"
EntryPoint(graph) == SelectSeq(graph.nodes, IsInputNode)[1].id

\* add_edge(edge.source, edge.target) for every edge, whatever its handles:
\* the nodes that run after node_id
Successors(graph, node_id) == Neighbors(graph.edges, 1, node_id)

\* front followed by the ids that are not yet in it
RECURSIVE AppendNew(_, _, _)
AppendNew(front, ids, i) ==
    IF i > Len(ids) THEN front
    ELSE AppendNew(IF ids[i] \in Range(front) THEN front ELSE Append(front, ids[i]),
                   ids, i + 1)

\* agent_node_function: agent_config.get fails on a null agent_config
HandlerRaises(node) ==
    node.type = "agent" /\ node.data.agent_config.kind = "null"
HandlerError == "'NoneType' object has no attribute 'get'"
BuildError == "Found edge referencing unknown node"

AgentResult(node) ==
    [kind |-> "agent_result",
     agent_id |-> node.data.agent_id,
     model |-> IF node.data.agent_config.kind = "map"
                  /\ node.data.agent_config.model # None
               THEN node.data.agent_config.model[1] ELSE "llama2",
     status |-> "completed",
     result |-> "Agent processing result"]
\* condition_node_function: result = {"branch": "true"}
ConditionResult(node) == [kind |-> "condition_result", branch |-> "true"]

\* the state after the node function of node has returned its update
NodeFunction(node, state) ==
    IF node.type = "input"
    THEN [state EXCEPT !.node_results = Put(@, node.id, state.input)]
    ELSE IF node.type = "output"
    THEN [state EXCEPT !.output =
             Put(@, IF node.data.label = None THEN node.id ELSE node.data.label[1],
                 EmptyDict)]
    ELSE IF node.type = "agent"
    THEN [state EXCEPT !.node_results = Put(@, node.id, AgentResult(node))]
    ELSE [state EXCEPT !.node_results = Put(@, node.id, ConditionResult(node))]

\* the try branch: status, output_data and end_time after graph.ainvoke
CompletedExecution(execution, state) ==
    [execution EXCEPT !.status = "completed",
                      !.output_data = Some(state.output),
                      !.end_time = Some(now)]
\* faulty variant: the except branch records no error text
FailedExecution_NoError(execution, message) ==
    [execution EXCEPT !.status = "failed", !.end_time = Some(now)]
\* the except branch
FailedExecution(execution, message) ==
    [execution EXCEPT !.status = "failed",
                      !.error = Some(message),
                      !.end_time = Some(now)]

\* faulty variant: the record is saved into a mapping that was read when the
\* task started, before any other execution was stored
SaveExecution_Stale(stored, execution) == Put(<<>>, execution.id, execution)
\* executions = load(); executions[execution.id] = execution; save(executions)
SaveExecution(stored, execution) == Put(stored, execution.id, execution)

\* the task starts: the graph is built, and a graph that does not compile
\* fails the execution at once
TaskStart(execution_id) ==
    /\ execution_id \in DOMAIN tasks
    /\ tasks[execution_id].pc = "scheduled"
    /\ LET task == tasks[execution_id]
       IN  IF BuildRaises(task.workflow)
           THEN LET execution == FailedExecution(task.execution, BuildError)
                IN  /\ tasks' = [tasks EXCEPT ![execution_id].pc = "done",
                                              ![execution_id].execution = execution]
                    /\ executions' = SaveExecution(load_workflow_executions, execution)
           ELSE /\ tasks' = [tasks EXCEPT
                                ![execution_id].pc = "running",
                                ![execution_id].frontier = <<EntryPoint(task.workflow)>>]
                /\ UNCHANGED executions
    /\ UNCHANGED <<workflows, usedWorkflowIds, usedExecutionIds, calls, lastCall,
                   vwf, vres, sideVars>>

\* graph.ainvoke runs the next node function; the run ends when a node
\* function raises or when no node is left, and the record is saved
TaskNode(execution_id) ==
    /\ execution_id \in DOMAIN tasks
    /\ tasks[execution_id].pc = "running"
    /\ LET task == tasks[execution_id]
           node == NodeById(task.workflow, Head(task.frontier))
           invoked == Append(task.invoked, node.id)
           state == NodeFunction(node, task.state)
           frontier == AppendNew(Tail(task.frontier),
                                 Successors(task.workflow, node.id), 1)
       IN  IF HandlerRaises(node)
           THEN LET execution == FailedExecution(task.execution, HandlerError)
                IN  /\ tasks' = [tasks EXCEPT ![execution_id].pc = "done",
                                              ![execution_id].invoked = invoked,
                                              ![execution_id].frontier = <<>>,
                                              ![execution_id].execution = execution]
                    /\ executions' = SaveExecution(load_workflow_executions, execution)
           ELSE IF frontier = <<>>
           THEN LET execution == CompletedExecution(task.execution, state)
                IN  /\ tasks' = [tasks EXCEPT ![execution_id].pc = "done",
                                              ![execution_id].invoked = invoked,
                                              ![execution_id].frontier = <<>>,
                                              ![execution_id].state = state,
                                              ![execution_id].execution = execution]
                    /\ executions' = SaveExecution(load_workflow_executions, execution)
           ELSE /\ tasks' = [tasks EXCEPT ![execution_id].invoked = invoked,
                                          ![execution_id].frontier = frontier,
                                          ![execution_id].state = state]
                /\ UNCHANGED executions
    /\ UNCHANGED <<workflows, usedWorkflowIds, usedExecutionIds, calls, lastCall,
                   vwf, vres, sideVars>>

(***************************************************************************)
(* Reading executions                                                      *)
(***************************************************************************)
\* faulty variant: the owner of the execution is not compared with the caller
get_workflow_execution_AnyUser(execution_id, user_id) ==
    IF execution_id \in DOMAIN load_workflow_executions
    THEN Some(load_workflow_executions[execution_id])
    ELSE None
\* get_workflow_execution as a function of the store: the execution, or None
get_workflow_execution(execution_id, user_id) ==
    IF execution_id \in DOMAIN load_workflow_executions
       /\ load_workflow_executions[execution_id].user_id = user_id
    THEN Some(load_workflow_executions[execution_id])
    ELSE None

\* get_user_workflow_executions as a function of the store
get_user_workflow_executions(user_id) ==
    LET OfUser(e) == e.user_id = user_id
    IN  SelectSeq(Values(load_workflow_executions, DOMAIN load_workflow_executions),
                  OfUser)

(***************************************************************************)
(* The service                                                             *)
(***************************************************************************)
Next ==
    \/ \E graph \in CreateGraphs, user_id \in Users : create_workflow(graph, user_id)
    \/ \E workflow_id \in WorkflowIds, workflow_data \in UpdateBodies, user_id \in Users :
           update_workflow(workflow_id, workflow_data, user_id)
    \/ \E workflow_id \in WorkflowIds, user_id \in Users :
           delete_workflow(workflow_id, user_id)
    \/ \E workflow_id \in WorkflowIds, user_id \in Users,
          input_data \in InputPayloads, dry_run \in BOOLEAN :
           execute_workflow(workflow_id, user_id, input_data, dry_run)
    \/ \E execution_id \in ExecutionIds : TaskStart(execution_id)
    \/ \E execution_id \in ExecutionIds : TaskNode(execution_id)

Spec == Init /\ [][Next]_vars

\* the service with the further request bodies
NextEdge ==
    \/ Next
    \/ \E user_id \in Users : create_workflow(EmptyGraph, user_id)
    \/ \E workflow_id \in WorkflowIds, workflow_data \in NullBodies, user_id \in Users :
           update_workflow(workflow_id, workflow_data, user_id)

SpecEdge == Init /\ [][NextEdge]_vars

\* the event loop runs every task it was handed: asyncio.create_task
\* schedules the coroutine, and a scheduled coroutine is resumed until it
\* returns
TaskFairness ==
    \A execution_id \in ExecutionIds :
        /\ WF_vars(TaskStart(execution_id))
        /\ WF_vars(TaskNode(execution_id))
SpecLive == Init /\ [][Next]_vars /\ TaskFairness


(***************************************************************************)
(* Properties of execute_workflow and of the background task               *)
(***************************************************************************)
\* the request is made by the owner of a stored workflow
Owned(workflow_id, user_id) ==
    /\ workflow_id \in DOMAIN workflows
    /\ workflows[workflow_id].user_id = user_id
\* the stored workflow passes validate_workflow
StoredValid(workflow_id) ==
    /\ validate_workflow(workflows[workflow_id]).kind = "returned"
    /\ validate_workflow(workflows[workflow_id]).is_valid
\* validate_workflow answers is_valid = false, or raises, for the stored workflow
StoredInvalid(workflow_id) ==
    \/ validate_workflow(workflows[workflow_id]).kind = "raised"
    \/ ~validate_workflow(workflows[workflow_id]).is_valid
\* the step serves an execute_workflow request, described by lastCall'
ExecuteServed == calls' = calls + 1 /\ lastCall'.op = "execute_workflow"
Terminal == {"completed", "failed"}
\* the node ids recorded in node_executions
RecordedNodes(execution) ==
    {execution.node_executions[i].node_id : i \in DOMAIN execution.node_executions}

C3_TerminalIsFinal ==
    [][\A execution_id \in DOMAIN executions \cap DOMAIN executions' :
            LET before == executions[execution_id]
                after == executions'[execution_id]
            IN  /\ before.status # after.status
                     => before.status = "running" /\ after.status \in Terminal
                /\ before.status \in Terminal
                     => /\ after.status = before.status
                        /\ after.output_data = before.output_data
                        /\ after.error = before.error]_vars
\* a completed and a failed execution are stored side by side
C3_Witness ==
    \E e1 \in DOMAIN executions : \E e2 \in DOMAIN executions :
        /\ e1 # e2
        /\ executions[e1].status = "completed"
        /\ executions[e2].status = "failed"

\* C4: when the run of input-1 -> agent-1 -> output-1 is over, the execution
\* is completed, node_executions has an entry for each of the three nodes and
\* output_data holds "ok" under the label of the output node
C4_LinearRunRecorded ==
    \A execution_id \in DOMAIN tasks :
        (/\ tasks[execution_id].pc = "done"
         /\ tasks[execution_id].workflow = Graph(LinearNodes, LinearEdges))
            => /\ executions[execution_id].status = "completed"
               /\ {"input-1", "agent-1", "output-1"}
                      \subseteq RecordedNodes(executions[execution_id])
               /\ executions[execution_id].output_data # None
               /\ "Output" \in DOMAIN executions[execution_id].output_data[1]
               /\ executions[execution_id].output_data[1]["Output"] = Str("ok")

\* C5: when the agent node function of input-1 -> agent-1 -> output-1 raises,
\* execute_workflow has returned normally, the execution ends failed with an
\* error and an end_time, node_executions holds input-1 and nothing else, and
\* the node function of output-1 is not run
C5_FailureRecorded ==
    \A execution_id \in DOMAIN tasks :
        (/\ tasks[execution_id].pc = "done"
         /\ tasks[execution_id].workflow = Graph(FailingNodes, LinearEdges))
            => /\ executions[execution_id].status = "failed"
               /\ executions[execution_id].error # None
               /\ executions[execution_id].end_time # None
               /\ "output-1" \notin Range(tasks[execution_id].invoked)
               /\ RecordedNodes(executions[execution_id]) = {"input-1"}

\* C6: a node that is entered only through an edge of a condition node whose
\* source_handle differs from the branch the condition node evaluated to is
\* not run
C6_OnlySelectedBranchRuns ==
    \A execution_id \in DOMAIN tasks :
        LET task == tasks[execution_id]
            edges == task.workflow.edges
        IN  \A i \in DOMAIN edges :
                (/\ edges[i].source_handle # None
                 /\ NodeById(task.workflow, edges[i].source).type = "condition"
                 /\ edges[i].source \in DOMAIN task.state.node_results
                 /\ edges[i].source_handle[1]
                        # task.state.node_results[edges[i].source].branch
                 /\ \A j \in DOMAIN edges :
                        edges[j].target = edges[i].target => j = i)
                    => edges[i].target \notin Range(task.invoked)

DryRunMessage == [message |-> Str("dry run, no nodes executed")]
C8_DryRunRecord ==
    (lastCall.op = "execute_workflow" /\ lastCall.dry_run /\ lastCall.outcome = "ok")
        => /\ executions[lastCall.execution_id].end_time # None
           /\ executions[lastCall.execution_id].output_data = Some(DryRunMessage)

(***************************************************************************)
(* validate_workflow applied to a bounded family of workflow graphs        *)
(***************************************************************************)
\* the node ids of the generated graphs; "ghost" is never the id of a node
NodePool == <<"a", "b", "c", "d", "e", "f">>
EndpointName(i) == IF i = 0 THEN "ghost" ELSE NodePool[i]
GenTypes == {"input", "output", "agent"}

\* node lists of up to MaxNodes nodes; with dup the last node repeats the id
\* of the first
NodeList(types, dup) ==
    [i \in DOMAIN types |->
        WorkflowNode(IF dup /\ i = Len(types) /\ i > 1 THEN NodePool[1] ELSE NodePool[i],
                     types[i], NodeData(None, CfgAbsent))]
GenNodes ==
    {NodeList(types, dup) :
        types \in UNION {[1..n -> GenTypes] : n \in 0..MaxNodes}, dup \in BOOLEAN}

\* edge lists of up to MaxEdges distinct edges between the pool ids and
\* "ghost", listed in one fixed order
EdgeRank(pair) == pair[1] * (MaxNodes + 1) + pair[2]
GenEdges ==
    {[i \in DOMAIN pairs |->
         WorkflowEdge(EndpointName(pairs[i][1]), EndpointName(pairs[i][2]), None)] :
        pairs \in {ps \in UNION {[1..k -> (0..MaxNodes) \X (0..MaxNodes)] :
                                    k \in 0..MaxEdges} :
                      \A i \in DOMAIN ps : \A j \in DOMAIN ps :
                          i < j => EdgeRank(ps[i]) < EdgeRank(ps[j])}}

InitValidate ==
    /\ workflows = <<>>
    /\ usedWorkflowIds = {}
    /\ executions = <<>>
    /\ usedExecutionIds = {}
    /\ tasks = <<>>
    /\ calls = 0
    /\ lastCall = NoCall
    /\ \E nodes \in GenNodes : \E edges \in GenEdges : vwf = Graph(nodes, edges)
    /\ vres = [kind |-> "none"]
    /\ AuthInit /\ AgentInit /\ ModelInit

\* POST /validate: validate_workflow(workflow_obj)
Validate ==
    /\ vres.kind = "none"
    /\ vres' = validate_workflow(vwf)
    /\ UNCHANGED <<workflows, usedWorkflowIds, executions, usedExecutionIds, tasks,
                   calls, lastCall, vwf, sideVars>>

NextValidate == Validate

SpecValidate == InitValidate /\ [][NextValidate]_vars

\* the pairs <<u, v>> with a directed path of at least one edge from u to v
EdgePairs(edges) == {<<edges[i].source, edges[i].target>> : i \in DOMAIN edges}
RECURSIVE PathPairs(_, _, _)
PathPairs(edges, reached, k) ==
    IF k = 0 THEN reached
    ELSE PathPairs(edges,
                   reached \cup {<<p[1], q[2]>> : <<p, q>> \in
                                    {<<x, y>> \in reached \X EdgePairs(edges) :
                                        x[2] = y[1]}},
                   k - 1)
HasDirectedCycle(graph) ==
    \E p \in PathPairs(graph.edges, EdgePairs(graph.edges), Len(graph.edges)) :
        p[1] = p[2]
EdgesResolve(graph) ==
    \A i \in DOMAIN graph.edges :
        /\ graph.edges[i].source \in NodeIdsOf(graph.nodes)
        /\ graph.edges[i].target \in NodeIdsOf(graph.nodes)
HasInputNode(graph) == \E i \in DOMAIN graph.nodes : graph.nodes[i].type = "input"
\* some node is the end of two different edges, neither of them a self-loop
HasJoin(graph) ==
    \E i \in DOMAIN graph.edges : \E j \in DOMAIN graph.edges :
        /\ i # j
        /\ graph.edges[i].target = graph.edges[j].target
        /\ graph.edges[i].source # graph.edges[j].source

\* C9: every workflow graph that contains a directed cycle is answered with
\* is_valid = false and the cycle error
C9_CycleRejected ==
    (vres.kind # "none" /\ HasDirectedCycle(vwf))
        => /\ vres.kind = "returned"
           /\ ~vres.is_valid
           /\ CycleError \in Range(vres.errors)

\* C10: a workflow with an input node, edges that all name nodes and no
\* directed cycle is answered with is_valid = true and no errors
C10_AcyclicValid ==
    (vres.kind # "none" /\ HasInputNode(vwf) /\ EdgesResolve(vwf)
     /\ ~HasDirectedCycle(vwf))
        => /\ vres.kind = "returned"
           /\ vres.is_valid
           /\ vres.errors = <<>>
\* an acyclic graph with a node reached along two paths has been validated
C10_Witness ==
    /\ vres.kind = "returned"
    /\ vres.is_valid
    /\ HasInputNode(vwf) /\ EdgesResolve(vwf) /\ ~HasDirectedCycle(vwf)
    /\ Len(vwf.edges) = 3
    /\ HasJoin(vwf)
    /\ \E i \in DOMAIN vwf.edges : \E j \in DOMAIN vwf.edges :
           vwf.edges[i].target = vwf.edges[j].source

HasOutputNode(graph) == \E i \in DOMAIN graph.nodes : graph.nodes[i].type = "output"
\* the edge endpoints that are the id of no node
MissingEndpoints(graph) ==
    ({graph.edges[i].source : i \in DOMAIN graph.edges}
     \cup {graph.edges[i].target : i \in DOMAIN graph.edges}) \ NodeIdsOf(graph.nodes)
\* the ids carried by more than one node
DuplicatedIds(graph) ==
    {graph.nodes[i].id : i \in {k \in DOMAIN graph.nodes :
                                   \E j \in DOMAIN graph.nodes :
                                       j # k /\ graph.nodes[j].id = graph.nodes[k].id}}
\* the positions of the nodes that are not input nodes and that no edge names
OrphanPositions(graph) ==
    {i \in DOMAIN graph.nodes :
        /\ graph.nodes[i].type # "input"
        /\ \A j \in DOMAIN graph.edges :
               /\ graph.edges[j].source # graph.nodes[i].id
               /\ graph.edges[j].target # graph.nodes[i].id}
IsOrphanIssue(issue) == issue.message = OrphanWarning("").message

\* C11: every workflow without a node of type "input" is answered with
\* is_valid = false and the error "Workflow must have at least one input node"
C11_NoInputRejected ==
    (vres.kind # "none" /\ ~HasInputNode(vwf))
        => /\ vres.kind = "returned"
           /\ ~vres.is_valid
           /\ NoInputError \in Range(vres.errors)

\* C12: a workflow with zero nodes is answered with is_valid = false and an
\* error of its own, different from the missing-input error
C12_EmptyWorkflowError ==
    (vres.kind # "none" /\ vwf.nodes = <<>>)
        => /\ vres.kind = "returned"
           /\ ~vres.is_valid
           /\ \E i \in DOMAIN vres.errors : vres.errors[i] # NoInputError

\* C13: a workflow without output node that has an input node, edges that
\* all name nodes and no directed cycle is answered with is_valid = true
\* and a non-empty list of warnings that holds the missing-output warning
C13_MissingOutputWarns ==
    (vres.kind # "none" /\ ~HasOutputNode(vwf) /\ HasInputNode(vwf)
     /\ EdgesResolve(vwf) /\ ~HasDirectedCycle(vwf))
        => /\ vres.kind = "returned"
           /\ vres.is_valid
           /\ vres.warnings # <<>>
           /\ NoOutputWarning \in Range(vres.warnings)
           /\ NoOutputWarning \notin Range(vres.errors)
\* a lone input node has been validated: the missing output is the only issue
C13_Witness ==
    /\ vres.kind = "returned"
    /\ vres.is_valid
    /\ Len(vwf.nodes) = 1 /\ HasInputNode(vwf) /\ vwf.edges = <<>>
    /\ vres.warnings = <<NoOutputWarning>>

\* C14: a workflow with an edge whose source or target is the id of no node
\* is answered, without an exception, with is_valid = false and an error
\* that names a missing node id
C14_DanglingEdgeRejected ==
    (vres.kind # "none" /\ ~EdgesResolve(vwf))
        => /\ vres.kind = "returned"
           /\ ~vres.is_valid
           /\ \E i \in DOMAIN vres.errors :
                  vres.errors[i].node_id \in MissingEndpoints(vwf)

\* C15: a workflow in which two nodes share an id is answered with
\* is_valid = false and an error that names the duplicated id
C15_DuplicateIdRejected ==
    (vres.kind # "none" /\ DuplicatedIds(vwf) # {})
        => /\ vres.kind = "returned"
           /\ ~vres.is_valid
           /\ \E i \in DOMAIN vres.errors :
                  vres.errors[i].node_id \in DuplicatedIds(vwf)

\* C16: validate_workflow answers with one orphan warning for each node that
\* is not an input node and that no edge names, with an orphan warning for no
\* other node, and with no orphan issue among the errors
C16_OrphanWarnings ==
    vres.kind # "none"
        => /\ vres.kind = "returned"
           /\ {vres.warnings[i].node_id :
                  i \in {k \in DOMAIN vres.warnings : IsOrphanIssue(vres.warnings[k])}}
                  = {vwf.nodes[i].id : i \in OrphanPositions(vwf)}
           /\ Len(SelectSeq(vres.warnings, IsOrphanIssue))
                  = Cardinality(OrphanPositions(vwf))
           /\ \A i \in DOMAIN vres.errors : ~IsOrphanIssue(vres.errors[i])

\* C17: whenever validate_workflow returns, is_valid is true exactly when the
\* list of errors is empty, whatever the warnings are
C17_ValidIffNoErrors ==
    vres.kind = "returned" => (vres.is_valid <=> vres.errors = <<>>)
\* a workflow with two warnings and no error has been answered as valid
C17_Witness ==
    /\ vres.kind = "returned"
    /\ vres.is_valid
    /\ vres.errors = <<>>
    /\ Len(vres.warnings) >= 2

(***************************************************************************)
(* Properties of deletion and of the isolation between users               *)
(***************************************************************************)
\* the reads are functions of the stores, so a statement about what a read
\* returns is a statement about the stores before and after a step
NotFoundError == "ValueError: Workflow not found or access denied"
\* the step serves a request of user_id on workflow_id, described by lastCall'
CallServed(op, workflow_id, user_id) ==
    /\ calls' = calls + 1
    /\ lastCall'.op = op
    /\ lastCall'.id = workflow_id
    /\ lastCall'.user_id = user_id
\* the ids of the workflows that were created and deleted since
DeletedIds == usedWorkflowIds \ DOMAIN workflows
ExecutionStoresUnchanged ==
    /\ executions' = executions
    /\ usedExecutionIds' = usedExecutionIds
    /\ tasks' = tasks

\* C18: once delete_workflow(id, owner) has returned true, get_workflow(id,
\* owner) returns None, the owner's list no longer holds the workflow, and
\* every later execute_workflow on that id fails with the not-found error
\* and creates no execution
C18_DeletedIsGone ==
    [][\A workflow_id \in WorkflowIds : \A user_id \in Users :
          /\ (CallServed("delete_workflow", workflow_id, user_id)
              /\ lastCall'.outcome = "True")
                 => /\ workflow_id \in DeletedIds'
                    /\ get_workflow(workflow_id, user_id)' = None
                    /\ \A i \in DOMAIN get_user_workflows(user_id)' :
                           get_user_workflows(user_id)'[i].id # workflow_id
          /\ workflow_id \in DeletedIds
                 => /\ workflow_id \in DeletedIds'
                    /\ get_workflow(workflow_id, user_id)' = None
                    /\ CallServed("execute_workflow", workflow_id, user_id)
                           => /\ lastCall'.outcome = NotFoundError
                              /\ ExecutionStoresUnchanged]_vars
\* a workflow was created and deleted, and a later execute_workflow on its id
\* was refused as not found
C18_Witness ==
    /\ lastCall.op = "execute_workflow"
    /\ lastCall.id \in DeletedIds
    /\ lastCall.outcome = NotFoundError
    /\ get_workflow(lastCall.id, lastCall.user_id) = None
    /\ executions = <<>>

\* what a request on a workflow the caller does not own is answered with
NotOwnedOutcome(op) ==
    CASE op = "update_workflow" -> "None"
      [] op = "delete_workflow" -> "False"
      [] op = "execute_workflow" -> NotFoundError
WorkflowOps == {"update_workflow", "delete_workflow", "execute_workflow"}
\* no read hands a record to a user who is not its owner
ReadsIsolated ==
    /\ \A workflow_id \in DOMAIN workflows : \A user_id \in Users :
           workflows[workflow_id].user_id # user_id
               => get_workflow(workflow_id, user_id) = None
    /\ \A execution_id \in ExecutionIds : \A user_id \in Users :
           get_workflow_execution(execution_id, user_id) # None
               => get_workflow_execution(execution_id, user_id)[1].user_id = user_id
    /\ \A user_id \in Users :
           \A i \in DOMAIN get_user_workflow_executions(user_id) :
               get_user_workflow_executions(user_id)[i].user_id = user_id

\* C19: for a workflow owned by one user and any other user B, get_workflow
\* returns None, update_workflow returns None, delete_workflow returns False
\* and execute_workflow fails, none of them changes the stored workflow or
\* creates an execution, and the execution reads return only executions of
\* the requester
C19_CrossUserIsolation ==
    [][/\ ReadsIsolated
       /\ ReadsIsolated'
       /\ \A workflow_id \in DOMAIN workflows : \A user_id \in Users :
              \A op \in WorkflowOps :
                  (CallServed(op, workflow_id, user_id)
                   /\ workflows[workflow_id].user_id # user_id)
                      => /\ lastCall'.outcome = NotOwnedOutcome(op)
                         /\ workflows' = workflows
                         /\ ExecutionStoresUnchanged]_vars
\* bob's request on a workflow of alice was refused, and alice has an
\* execution that bob cannot read
C19_Witness ==
    /\ lastCall.op \in WorkflowOps
    /\ lastCall.user_id = "bob"
    /\ lastCall.id \in DOMAIN workflows
    /\ workflows[lastCall.id].user_id = "alice"
    /\ lastCall.outcome = NotOwnedOutcome(lastCall.op)
    /\ \E execution_id \in DOMAIN executions :
           /\ executions[execution_id].user_id = "alice"
           /\ get_workflow_execution(execution_id, "bob") = None
           /\ get_workflow_execution(execution_id, "alice") # None

\* C20: what get_workflow, update_workflow, delete_workflow, execute_workflow
\* and get_workflow_execution answer for an id of another user's record is
\* what they answer for an id that does not exist: the answer to a caller who
\* does not own the id does not depend on whether the record exists, and the
\* stores are left as they were
C20_NotFoundSameAsNotOwned ==
    [][/\ \A user_id \in Users : \A foreign \in WorkflowIds : \A missing \in WorkflowIds :
              (/\ foreign \in DOMAIN workflows
               /\ workflows[foreign].user_id # user_id
               /\ missing \notin DOMAIN workflows)
                  => /\ get_workflow(foreign, user_id) = get_workflow(missing, user_id)
                     /\ ExecuteOutcome(foreign, user_id) = ExecuteOutcome(missing, user_id)
       /\ \A user_id \in Users : \A foreign \in ExecutionIds : \A missing \in ExecutionIds :
              (/\ foreign \in DOMAIN executions
               /\ executions[foreign].user_id # user_id
               /\ missing \notin DOMAIN executions)
                  => get_workflow_execution(foreign, user_id)
                         = get_workflow_execution(missing, user_id)
       /\ \A user_id \in Users : \A workflow_id \in WorkflowIds : \A op \in WorkflowOps :
              (CallServed(op, workflow_id, user_id) /\ ~Owned(workflow_id, user_id))
                  => /\ lastCall'.outcome = NotOwnedOutcome(op)
                     /\ workflows' = workflows
                     /\ ExecutionStoresUnchanged]_vars
\* bob was refused on an id that does not exist while a workflow and an
\* execution of alice are stored and further ids are unused
C20_Witness ==
    /\ lastCall.op \in WorkflowOps
    /\ lastCall.user_id = "bob"
    /\ lastCall.id \notin DOMAIN workflows
    /\ lastCall.outcome = NotOwnedOutcome(lastCall.op)
    /\ \E foreign \in DOMAIN workflows : workflows[foreign].user_id = "alice"
    /\ \E foreign \in DOMAIN executions : executions[foreign].user_id = "alice"
    /\ DOMAIN executions # ExecutionIds

(***************************************************************************)
(* Properties of update_workflow and of the empty workflow                 *)
(***************************************************************************)
AllBodies == UpdateBodies \cup NullBodies
\* the value of a field after an update with workflow_data
Replaced(workflow_data, key, old) ==
    IF key \in DOMAIN workflow_data THEN workflow_data[key] ELSE old

\* C21: update_workflow by the owner replaces exactly the fields of name,
\* description, nodes and edges that the update data holds, stamps
\* updated_at with the clock, leaves every other field as it was, and the
\* record read back afterwards is the workflow it returned
C21_UpdateFrame ==
    [][\A workflow_id \in WorkflowIds : \A user_id \in Users :
          \A workflow_data \in AllBodies :
              (/\ CallServed("update_workflow", workflow_id, user_id)
               /\ Owned(workflow_id, user_id)
               /\ update_workflow(workflow_id, workflow_data, user_id))
                  => LET old == workflows[workflow_id]
                         returned == UpdatedWorkflow(old, workflow_data)
                     IN  /\ lastCall'.outcome = "ok"
                         /\ returned.name = Replaced(workflow_data, "name", old.name)
                         /\ returned.description
                                = Replaced(workflow_data, "description", old.description)
                         /\ returned.nodes = Replaced(workflow_data, "nodes", old.nodes)
                         /\ returned.edges = Replaced(workflow_data, "edges", old.edges)
                         /\ returned.updated_at = now
                         /\ returned.id = old.id
                         /\ returned.user_id = old.user_id
                         /\ returned.created_at = old.created_at
                         /\ returned.is_template = old.is_template
                         /\ returned.template_category = old.template_category
                         /\ get_workflow(workflow_id, user_id)' = Some(returned)]_vars

\* C22: execute_workflow with dry_run = true by the owner of a workflow
\* without nodes and edges succeeds and returns an execution id, and
\* get_workflow_execution of that id by the same user returns a record with
\* that id, that workflow_id and a status among completed, running, failed
C22_EmptyDryRunSucceeds ==
    [][\A workflow_id \in WorkflowIds : \A user_id \in Users :
          (/\ CallServed("execute_workflow", workflow_id, user_id)
           /\ lastCall'.dry_run
           /\ get_workflow(workflow_id, user_id) # None
           /\ workflows[workflow_id].nodes = <<>>
           /\ workflows[workflow_id].edges = <<>>)
              => /\ lastCall'.outcome = "ok"
                 /\ \E execution_id \in ExecutionIds :
                        /\ lastCall'.execution_id = execution_id
                        /\ get_workflow_execution(execution_id, user_id)' # None
                        /\ get_workflow_execution(execution_id, user_id)'[1].id
                               = execution_id
                        /\ get_workflow_execution(execution_id, user_id)'[1].workflow_id
                               = workflow_id
                        /\ get_workflow_execution(execution_id, user_id)'[1].status
                               \in {"completed", "running", "failed"}]_vars

\* all keys of the two mappings other than key hold the same record
SameExcept(before, after, key) ==
    /\ DOMAIN before \ {key} = DOMAIN after \ {key}
    /\ \A other \in DOMAIN before \ {key} : after[other] = before[other]

\* C29: a step that writes the workflow store changes the record of one
\* workflow id only, and a step that writes the execution store changes the
\* record of one execution id only, also when the store file could not be
\* read before the write
C29_OneRecordFrame ==
    [][/\ workflows' # workflows
           => \E workflow_id \in WorkflowIds :
                  SameExcept(workflows, workflows', workflow_id)
       /\ executions' # executions
           => \E execution_id \in ExecutionIds :
                  SameExcept(executions, executions', execution_id)]_vars

(***************************************************************************)
(* Properties of concurrent executions                                     *)
(***************************************************************************)
\* C26: with several executions in flight no update is lost: every launched
\* execution stays in the store, a stored record changes only once, from
\* running to the terminal record of its own task, and every finished task
\* has its terminal status in the store
C26_NoLostUpdate ==
    [][/\ DOMAIN executions \subseteq DOMAIN executions'
       /\ usedExecutionIds' = DOMAIN executions'
       /\ \A execution_id \in DOMAIN executions :
              executions'[execution_id] # executions[execution_id]
                  => /\ executions[execution_id].status = "running"
                     /\ executions'[execution_id].status \in Terminal
                     /\ execution_id \in DOMAIN tasks'
                     /\ tasks'[execution_id].pc = "done"
                     /\ executions'[execution_id] = tasks'[execution_id].execution
       /\ \A execution_id \in DOMAIN tasks' :
              tasks'[execution_id].pc = "done"
                  => /\ execution_id \in DOMAIN executions'
                     /\ executions'[execution_id].status \in Terminal]_vars
\* one execution was finished and saved while the task of another one was
\* between two node functions, and both records are in the store
C26_Witness ==
    \E first \in DOMAIN tasks : \E second \in DOMAIN tasks :
        /\ first # second
        /\ tasks[first].pc = "done"
        /\ executions[first].status \in Terminal
        /\ tasks[second].pc = "running"
        /\ tasks[second].invoked # <<>>
        /\ second \in DOMAIN executions
        /\ executions[second].status = "running"

\* C27: delete_workflow and update_workflow leave the execution store as it
\* was: every execution, those of the deleted or updated workflow included,
\* is returned to its owner as before, with the same status, output_data and
\* error
C27_ExecutionsSurviveWorkflow ==
    [][(calls' = calls + 1
        /\ lastCall'.op \in {"delete_workflow", "update_workflow"})
           => /\ executions' = executions
              /\ \A execution_id \in ExecutionIds : \A user_id \in Users :
                     get_workflow_execution(execution_id, user_id)'
                         = get_workflow_execution(execution_id, user_id)]_vars
\* a workflow with a stored execution was deleted, and its owner still reads
\* the execution
C27_Witness ==
    /\ lastCall.op = "delete_workflow"
    /\ lastCall.outcome = "True"
    /\ lastCall.id \notin DOMAIN workflows
    /\ \E execution_id \in DOMAIN executions :
           /\ executions[execution_id].workflow_id = lastCall.id
           /\ get_workflow_execution(execution_id, lastCall.user_id) # None

\* C28: every execution that was handed to a background task reaches a
\* stored terminal status with an end_time; a stored failed execution always
\* has an error text and a stored completed execution never has one.  The
\* requests are finitely many and a terminal record stays as it is (C3), so
\* "each of them eventually" is "from some point on, all of them"
C28_EventuallyTerminal ==
    /\ <>[](\A execution_id \in DOMAIN tasks :
                /\ execution_id \in DOMAIN executions
                /\ executions[execution_id].status \in Terminal
                /\ executions[execution_id].end_time # None)
    /\ [](\A execution_id \in DOMAIN executions :
              /\ executions[execution_id].status \in Terminal
                     => executions[execution_id].end_time # None
              /\ executions[execution_id].status = "failed"
                     => executions[execution_id].error # None
              /\ executions[execution_id].status = "completed"
                     => executions[execution_id].error = None)
\* a background task has ended in the except branch and its record is stored
\* as failed with an error text and an end_time
C28_Witness ==
    \E execution_id \in DOMAIN tasks :
        /\ tasks[execution_id].pc = "done"
        /\ executions[execution_id].status = "failed"
        /\ executions[execution_id].error # None
        /\ executions[execution_id].end_time # None

(***************************************************************************)
(* Authentication: auth_utils.py and the auth routes of main.py            *)
(***************************************************************************)
Emails == {"ann@example.com", "ben@example.com"}
Passwords == {"OldPassword123", "NewPassword123"}

\* pwd_context.hash: the bcrypt hash of a password
get_password_hash(password) == [scheme |-> "bcrypt", of |-> password]
\* pwd_context.verify
verify_password(plain_password, hashed_password) ==
    hashed_password = get_password_hash(plain_password)

\* load_users: a fresh mapping of fresh User objects on every call; register
\* admits one user per email, so the email stands for the uuid key
load_users == users
\* next((user for user in users.values() if user.email == email), None)
UserByEmail(loaded, email) ==
    IF email \in DOMAIN loaded THEN Some(loaded[email]) ELSE None
\* get_current_user: the token is decoded to its email, and the user is
\* looked up in a mapping loaded for this purpose
get_current_user(token) ==
    IF token \in tokens THEN UserByEmail(load_users, token) ELSE None

AuthReply(op, email, password, new_password, status_code) ==
    [op |-> op, email |-> email, password |-> password,
     new_password |-> new_password, status_code |-> status_code]

\* POST /api/auth/register
register(email, password) ==
    /\ IF email \in DOMAIN load_users
       THEN /\ authReply' = AuthReply("register", email, password, "", 400)
            /\ UNCHANGED <<users, tokens>>
       ELSE /\ users' = Put(load_users, email,
                            [email |-> email,
                             password_hash |-> get_password_hash(password),
                             last_login |-> None])
            /\ tokens' = tokens \cup {email}
            /\ authReply' = AuthReply("register", email, password, "", 200)
    /\ UNCHANGED <<workflowVars, agentVars, modelVars>>

\* what POST /api/auth/login answers for these credentials
LoginStatus(email, password) ==
    IF UserByEmail(load_users, email) = None
       \/ ~verify_password(password, UserByEmail(load_users, email)[1].password_hash)
    THEN 401
    ELSE 200

\* POST /api/auth/login: user is an object of the loaded mapping, so its new
\* last_login is saved
login(email, password) ==
    /\ IF LoginStatus(email, password) = 401
       THEN /\ authReply' = AuthReply("login", email, password, "", 401)
            /\ UNCHANGED <<users, tokens>>
       ELSE /\ users' = [load_users EXCEPT ![email].last_login = Some(now)]
            /\ tokens' = tokens \cup {email}
            /\ authReply' = AuthReply("login", email, password, "", 200)
    /\ UNCHANGED <<workflowVars, agentVars, modelVars>>

\* save_users(users) in change_password: users is the mapping that
\* change_password loaded itself; current_user is an object of the mapping
\* that get_current_user loaded, so the new password_hash is set on an object
\* that is not among the saved ones
SavedAfterChange(loaded, current_user, new_password) == loaded

\* POST /api/auth/change-password
change_password(token, current_password, new_password) ==
    /\ IF get_current_user(token) = None
       THEN /\ authReply' = AuthReply("change_password", token, current_password,
                                      new_password, 401)
            /\ UNCHANGED users
       ELSE LET loaded == load_users
                current_user == get_current_user(token)[1]
            IN  IF ~verify_password(current_password, current_user.password_hash)
                THEN /\ authReply' = AuthReply("change_password", token,
                                               current_password, new_password, 400)
                     /\ UNCHANGED users
                ELSE /\ users' = SavedAfterChange(loaded, current_user, new_password)
                     /\ authReply' = AuthReply("change_password", token,
                                               current_password, new_password, 200)
    /\ UNCHANGED <<tokens, workflowVars, agentVars, modelVars>>

NextAuth ==
    \/ \E email \in Emails, password \in Passwords : register(email, password)
    \/ \E email \in Emails, password \in Passwords : login(email, password)
    \/ \E token \in Emails, current_password \in Passwords, new_password \in Passwords :
           change_password(token, current_password, new_password)

SpecAuth == Init /\ [][NextAuth]_vars

\* C23: when the latest request is a change-password that was answered with
\* success, a login with the new password succeeds and a login with the old
\* password is rejected
C23_PasswordChanged ==
    (authReply.op = "change_password" /\ authReply.status_code = 200)
        => /\ LoginStatus(authReply.email, authReply.new_password) = 200
           /\ authReply.password # authReply.new_password
                  => LoginStatus(authReply.email, authReply.password) = 401

(***************************************************************************)
(* Agents: the agent routes of main.py over AgentDataService, and          *)
(* agent_routes.py over AgentService                                       *)
(***************************************************************************)
MaxAgents == 2
AgentIds == 1..MaxAgents
\* what the Ollama server does with a request
OllamaOutcomes == {"ok", "read_timeout", "connect_error", "http_error"}

\* AgentDataService.get_agent
get_agent(agent_id, user_id) ==
    IF agent_id \in DOMAIN agents /\ agents[agent_id].user_id = user_id
    THEN Some(agents[agent_id])
    ELSE None
\* the ids of f from the latest to the earliest
RECURSIVE Descending(_)
Descending(ids) ==
    IF ids = {} THEN <<>>
    ELSE LET k == CHOOSE x \in ids : \A y \in ids : y <= x
         IN  <<k>> \o Descending(ids \ {k})
\* AgentDataService.get_agents_by_user: the agents with that user_id, sorted
\* by created_at, latest first (ids are handed out in creation order)
get_agents_by_user(user_id) ==
    Descending({agent_id \in DOMAIN agents : agents[agent_id].user_id = user_id})
\* AgentService.get_agent: no user is asked for
AgentService_get_agent(agent_id) ==
    IF agent_id \in DOMAIN svcAgents THEN Some(svcAgents[agent_id]) ELSE None
\* AgentService.get_user_agents: list(self.agents.values()), whatever user_id
RECURSIVE Ascending(_)
Ascending(ids) ==
    IF ids = {} THEN <<>>
    ELSE LET k == CHOOSE x \in ids : \A y \in ids : x <= y
         IN  <<k>> \o Ascending(ids \ {k})
get_user_agents(user_id) == Ascending(DOMAIN svcAgents)

\* a response: the route module, the operation, the caller, the agent id
\* asked for, the HTTP status, the detail of an error response, the status
\* field of a normal execution response and the ids of a listing
AgentReply(module, op, user_id, agent_id, status_code, detail, status, listed) ==
    [module |-> module, op |-> op, user_id |-> user_id, agent_id |-> agent_id,
     status_code |-> status_code, detail |-> detail, status |-> status,
     listed |-> listed]

\* main.py POST /api/agents/create
main_create_agent(user_id) ==
    /\ usedAgentIds # AgentIds
    /\ LET agent_id == NewId(AgentIds, usedAgentIds)
       IN  /\ agents' = Put(agents, agent_id,
                            [id |-> agent_id, name |-> "AI Assistant",
                             user_id |-> user_id, status |-> "active"])
           /\ usedAgentIds' = usedAgentIds \cup {agent_id}
           /\ createdBy' = Put(createdBy, agent_id, user_id)
           /\ agentReply' = AgentReply("main", "create_agent", user_id, agent_id,
                                       200, "", "", <<>>)
    /\ UNCHANGED <<svcAgents, workflowVars, authVars, modelVars>>

\* main.py DELETE /api/agents/{agent_id}: the HTTPException(404) is raised
\* inside the try block and caught by except Exception
main_delete_agent(agent_id, user_id) ==
    /\ IF get_agent(agent_id, user_id) = None
       THEN /\ agentReply' = AgentReply("main", "delete_agent", user_id, agent_id, 500,
                                        "Failed to delete agent: 404: Agent not found",
                                        "", <<>>)
            /\ UNCHANGED agents
       ELSE /\ agents' = Del(agents, agent_id)
            /\ agentReply' = AgentReply("main", "delete_agent", user_id, agent_id,
                                        200, "", "", <<>>)
    /\ UNCHANGED <<svcAgents, createdBy, usedAgentIds, workflowVars, authVars,
                   modelVars>>

\* main.py GET /api/agents
main_get_agents(user_id) ==
    /\ agentReply' = AgentReply("main", "get_agents", user_id, 0, 200, "", "",
                                get_agents_by_user(user_id))
    /\ UNCHANGED <<agents, svcAgents, createdBy, usedAgentIds, workflowVars,
                   authVars, modelVars>>

\* main.py POST /api/agents/execute: the whole body is one try block whose
\* except Exception returns a normal response with status "error"; the
\* HTTPException(404) for a missing agent is raised inside it
main_execute_agent(agent_id, user_id, ollama) ==
    /\ IF get_agent(agent_id, user_id) = None
       THEN agentReply' = AgentReply("main", "execute_agent", user_id, agent_id, 200,
                                     "", "error", <<>>)
       ELSE agentReply' = AgentReply("main", "execute_agent", user_id, agent_id, 200,
                                     "", IF ollama = "ok" THEN "completed" ELSE "error",
                                     <<>>)
    /\ UNCHANGED <<agents, svcAgents, createdBy, usedAgentIds, workflowVars,
                   authVars, modelVars>>

\* agent_routes.py POST /api/agents/create: AgentConfig has no user_id field;
\* any exception of create_agent_from_description becomes a 500
routes_create_agent(user_id, ollama) ==
    /\ usedAgentIds # AgentIds
    /\ IF ollama # "ok"
       THEN /\ agentReply' = AgentReply("agent_routes", "create_agent", user_id, 0, 500,
                                        "Failed to create agent", "", <<>>)
            /\ UNCHANGED <<svcAgents, usedAgentIds, createdBy>>
       ELSE LET agent_id == NewId(AgentIds, usedAgentIds)
            IN  /\ svcAgents' = Put(svcAgents, agent_id,
                                    [id |-> agent_id, name |-> "AI Assistant"])
                /\ usedAgentIds' = usedAgentIds \cup {agent_id}
                /\ createdBy' = Put(createdBy, agent_id, user_id)
                /\ agentReply' = AgentReply("agent_routes", "create_agent", user_id,
                                            agent_id, 200, "", "", <<>>)
    /\ UNCHANGED <<agents, workflowVars, authVars, modelVars>>

\* agent_routes.py GET /api/agents
routes_get_agents(user_id) ==
    /\ agentReply' = AgentReply("agent_routes", "get_agents", user_id, 0, 200, "", "",
                                get_user_agents(user_id))
    /\ UNCHANGED <<agents, svcAgents, createdBy, usedAgentIds, workflowVars,
                   authVars, modelVars>>

\* agent_routes.py POST /api/agents/execute: except HTTPException: raise
\* lets the 404 through; a found agent is run for any caller
routes_execute_agent(agent_id, user_id) ==
    /\ IF AgentService_get_agent(agent_id) = None
       THEN agentReply' = AgentReply("agent_routes", "execute_agent", user_id,
                                     agent_id, 404, "Agent not found", "", <<>>)
       ELSE agentReply' = AgentReply("agent_routes", "execute_agent", user_id,
                                     agent_id, 200, "", "running", <<>>)
    /\ UNCHANGED <<agents, svcAgents, createdBy, usedAgentIds, workflowVars,
                   authVars, modelVars>>

NextAgents ==
    \/ \E user_id \in Users : main_create_agent(user_id)
    \/ \E agent_id \in AgentIds, user_id \in Users : main_delete_agent(agent_id, user_id)
    \/ \E user_id \in Users : main_get_agents(user_id)
    \/ \E agent_id \in AgentIds, user_id \in Users, ollama \in OllamaOutcomes :
           main_execute_agent(agent_id, user_id, ollama)
    \/ \E user_id \in Users, ollama \in OllamaOutcomes :
           routes_create_agent(user_id, ollama)
    \/ \E user_id \in Users : routes_get_agents(user_id)
    \/ \E agent_id \in AgentIds, user_id \in Users :
           routes_execute_agent(agent_id, user_id)

SpecAgents == Init /\ [][NextAgents]_vars

\* the agents a user created through the application of that route module
\* and did not delete: main.py keeps its agents in AgentDataService,
\* agent_routes.py in AgentService
StoredAgents(module) ==
    IF module = "main" THEN DOMAIN agents ELSE DOMAIN svcAgents
AgentsOf(module, user_id) ==
    {agent_id \in StoredAgents(module) : createdBy[agent_id] = user_id}

\* C24: when the latest request executes an agent id that is stored for no
\* agent of the caller, the response is the 404 with a detail that says
\* "not found"
C24_ExecuteMissingAgentIs404 ==
    (agentReply.op = "execute_agent"
     /\ agentReply.agent_id \notin AgentsOf(agentReply.module, agentReply.user_id))
        => /\ agentReply.status_code = 404
           /\ agentReply.detail = "Agent not found"

\* C25: when the latest request lists the agents of a user, the listing
\* holds the agents that user created and did not delete, and no other
C25_ListIsOwnAgents ==
    agentReply.op = "get_agents"
        => Range(agentReply.listed) = AgentsOf(agentReply.module, agentReply.user_id)

(***************************************************************************)
(* Online models: model_service.py                                         *)
(***************************************************************************)
MaxModels == 2
MaxClock == 1
\* the seconds int(datetime.now().timestamp()) can show
Seconds == 0..MaxClock
ModelConfigs ==
    {[name |-> "Chat", model_name |-> "chat-large"],
     [name |-> "Code", model_name |-> "code-small"]}
\* f"online_{len(models_data['online_models']) + 1}_{int(datetime.now().timestamp())}"
OnlineModelId(stored, second) ==
    [prefix |-> "online", n |-> Cardinality(DOMAIN stored) + 1, t |-> second]
\* every id add_online_model can form within the bounds
OnlineModelIds ==
    [prefix : {"online"}, n : 1..MaxModels, t : Seconds]

\* ModelService.add_online_model
add_online_model(model_config) ==
    /\ Cardinality(DOMAIN online_models) < MaxModels
    /\ LET model_id == OnlineModelId(online_models, clock)
       IN  /\ online_models' = Put(online_models, model_id, model_config)
           /\ model_status' = Put(model_status, model_id, "inactive")
           /\ modelReply' = [op |-> "add_online_model", id |-> model_id]
    /\ UNCHANGED <<clock, workflowVars, authVars, agentVars>>

\* ModelService.toggle_model_status: a model without a status counts as active
toggle_model_status(model_id) ==
    /\ LET current_status ==
               IF model_id \in DOMAIN model_status THEN model_status[model_id]
               ELSE "active"
           new_status == IF current_status = "active" THEN "inactive" ELSE "active"
       IN  model_status' = Put(model_status, model_id, new_status)
    /\ modelReply' = [op |-> "toggle_model_status", id |-> model_id]
    /\ UNCHANGED <<online_models, clock, workflowVars, authVars, agentVars>>

\* ModelService.delete_online_model
delete_online_model(model_id) ==
    /\ IF model_id \in DOMAIN online_models
       THEN /\ online_models' = Del(online_models, model_id)
            /\ model_status' = Del(model_status, model_id)
       ELSE UNCHANGED <<online_models, model_status>>
    /\ modelReply' = [op |-> "delete_online_model", id |-> model_id]
    /\ UNCHANGED <<clock, workflowVars, authVars, agentVars>>

\* the wall clock reaches the next second
Tick ==
    /\ clock < MaxClock
    /\ clock' = clock + 1
    /\ UNCHANGED <<online_models, model_status, modelReply, workflowVars, authVars,
                   agentVars>>

NextModels ==
    \/ \E model_config \in ModelConfigs : add_online_model(model_config)
    \/ \E model_id \in OnlineModelIds : toggle_model_status(model_id)
    \/ \E model_id \in OnlineModelIds : delete_online_model(model_id)
    \/ Tick

SpecModels == Init /\ [][NextModels]_vars

\* C30: every add_online_model step leaves one more online model stored than
\* before and leaves the configuration and the status of every model that was
\* stored before as they were
C30_AddNeverOverwrites ==
    [][\A model_config \in ModelConfigs :
           add_online_model(model_config)
               => /\ Cardinality(DOMAIN online_models')
                         = Cardinality(DOMAIN online_models) + 1
                  /\ \A model_id \in DOMAIN online_models :
                         /\ model_id \in DOMAIN online_models'
                         /\ online_models'[model_id] = online_models[model_id]
                         /\ model_status'[model_id] = model_status[model_id]]_vars

====
